---- MODULE Spec2Model ----
(***************************************************************************)
(* Model of app.py, the "AI Coach - Business Diagnostic" Streamlit wizard. *)
(*                                                                         *)
(* Streamlit re-executes the whole script once per user interaction: the   *)
(* module body calls init_state(), then router(), which reads the stage in *)
(* st.session_state and renders exactly one page.  A widget reports a      *)
(* click only in the run that renders it, so a click on a page that is no  *)
(* longer the current stage's page only triggers a re-render.  Every       *)
(* browser session has its own st.session_state and its own script thread; *)
(* the file leads_db.csv is shared by all of them.                         *)
(***************************************************************************)
EXTENDS Integers, Sequences, FiniteSets, TLC

VARIABLES
    session_state,  \* st.session_state of each session (the keys of init_state)
    query_params,   \* st.query_params of each session's request URL
    screen,         \* the page each browser shows: the page rendered by the last run
    auth_form,      \* values of the auth_form widgets at the last submission
    pc,             \* "idle", or "upsert": the script thread is inside upsert_lead
    pending,        \* the upsert_lead call in progress: row, frame read, stage to set
    leads_db,       \* the rows of leads_db.csv (<<>>: the file does not exist)
    clock,          \* time.time() / datetime.utcnow(), in whole seconds
    calls,          \* history: rows passed to upsert_lead since the session (re)started
    emailed_ok,     \* history: an email_report call of the session returned ok
    failures,       \* number of upsert_lead calls that raised so far
    resets,         \* number of Start Over clicks so far
    wrap_state      \* the word-wrap loop of make_report_pdf: text, position, line, wrap

vars == <<session_state, query_params, screen, auth_form, pc, pending,
          leads_db, clock, calls, emailed_ok, failures, resets, wrap_state>>

-----------------------------------------------------------------------------
(* Bounds of the model *)

Sessions == {"s1", "s2"}

MaxTicks == 1
MaxFailures == 1
MaxResets == 1
MaxDistinct == 3
MaxWords == 3

SecondsPerMinute == 60

\* The first second of the model is the last second of a minute, so that one
\* tick changes the minute printed in the report.
StartClock == SecondsPerMinute - 1

-----------------------------------------------------------------------------
(* Static data *)

Stages == <<"landing", "pay", "auth", "survey", "report", "done">>

QUESTIONS ==
    << <<"vision",  "Clarity of vision & goals">>,
       <<"market",  "Market understanding & positioning">>,
       <<"product", "Product/Service readiness">>,
       <<"sales",   "Sales & lead generation">>,
       <<"ops",     "Operations & delivery">>,
       <<"finance", "Financial tracking & pricing">>,
       <<"team",    "Team & hiring">>,
       <<"brand",   "Brand & online presence">> >>

Keys == {QUESTIONS[i][1] : i \in 1..Len(QUESTIONS)}

ReferralKeys == {"ref", "utm_source", "utm_medium", "utm_campaign"}

SessionKeys == {"stage", "user_email", "user_name", "user_phone", "referral",
                "answers", "paid", "report_pdf_bytes", "lead_id"}

\* Optional values: <<>> is Python's None / an empty CSV cell, <<v>> is v.
None == <<>>
Some(v) == <<v>>

-----------------------------------------------------------------------------
(* Inputs *)

EmptyParams == [k \in {} |-> ""]

QueryParamChoices ==
    { EmptyParams, [ref |-> "partner", utm_source |-> ""] }

EmailChoices == {"", "ann@x.io"}
NameChoices == {"", "Ann"}
PhoneChoices == {"012"}
PasswordChoices == {"", "pw"}

AllThree == [k \in Keys |-> 3]

Scenario ==
    [vision |-> 5, market |-> 5, product |-> 1, sales |-> 1,
     ops |-> 3, finance |-> 3, team |-> 4, brand |-> 2]

ScoreChoices == {AllThree, Scenario}
NoteChoices == {""}

EmptyForm == [email |-> "", name |-> "", phone |-> "", password |-> ""]

-----------------------------------------------------------------------------
(* get_referral / init_state *)

get_referral(qp) ==
    [k \in ReferralKeys |-> IF k \in DOMAIN qp THEN qp[k] ELSE ""]

defaults(qp) ==
    [stage |-> "landing",
     user_email |-> "",
     user_name |-> "",
     user_phone |-> "",
     referral |-> get_referral(qp),
     answers |-> <<>>,
     paid |-> FALSE,
     report_pdf_bytes |-> None,
     lead_id |-> None]

\* kept: the keys still in st.session_state; the others get their default.
init_state(kept, ss, qp) ==
    [k \in SessionKeys |-> IF k \in kept THEN ss[k] ELSE defaults(qp)[k]]

-----------------------------------------------------------------------------
(* Lead store rows (leads_db.csv).  pd.concat gives every row the union of *)
(* the columns; a column a call did not set is an empty cell.              *)

ScoreColumn ==
    [vision |-> "score_vision", market |-> "score_market",
     product |-> "score_product", sales |-> "score_sales",
     ops |-> "score_ops", finance |-> "score_finance",
     team |-> "score_team", brand |-> "score_brand"]

Columns ==
    {"lead_id", "name", "email", "phone", "paid", "created_utc",
     "updated_utc", "report_ready", "emailed", "completed_utc"}
    \cup ReferralKeys \cup {ScoreColumn[k] : k \in Keys}

Row(fields) ==
    [c \in Columns |-> IF c \in DOMAIN fields THEN Some(fields[c]) ELSE None]

\* lead_id = f"lead_{int(time.time())}"
new_lead_id(now) == Some(<<"lead_", now>>)

\* the dict ui_auth passes to upsert_lead
identity_row(ss, name, email, phone, now) ==
    Row([lead_id |-> ss.lead_id, name |-> name, email |-> email,
         phone |-> phone, paid |-> ss.paid, created_utc |-> now]
        @@ ss.referral)

\* the dict ui_survey passes to upsert_lead
scores_row(ss, responses, now) ==
    Row([lead_id |-> ss.lead_id, updated_utc |-> now]
        @@ [c \in {ScoreColumn[k] : k \in Keys} |->
               LET k == CHOOSE q \in Keys : ScoreColumn[q] = c
               IN  responses[k].score])

\* the dict ui_report passes to upsert_lead when Finish is clicked
completion_row(ss, sent, now) ==
    Row([lead_id |-> ss.lead_id, report_ready |-> TRUE, emailed |-> sent,
         completed_utc |-> now])

\* upsert_lead up to the frame it is about to write: the new row alone when
\* the file does not exist, else the rows read from the file and the new row.
upsert_lead_frame(db, row) ==
    IF db = <<>> THEN <<row>> ELSE db \o <<row>>

-----------------------------------------------------------------------------
(* interpret *)

RECURSIVE SumScores(_, _)
SumScores(scores, ks) ==
    IF ks = {} THEN 0
    ELSE LET k == CHOOSE q \in ks : TRUE
         IN  scores[k].score + SumScores(scores, ks \ {k})

\* A format that cuts the digits after the first decimal.
format_1f_truncated(total, n) == (10 * total) \div n

\* f"{avg:.1f}" for avg = total / n: tenths of the printed number.  The mean
\* of integers over 8 is exact in binary, and the format rounds the exact
\* value half to even.
format_1f(total, n) ==
    LET q == (10 * total) \div n
        r == (10 * total) % n
    IN  IF 2 * r < n THEN q
        ELSE IF 2 * r > n THEN q + 1
        ELSE IF q % 2 = 0 THEN q ELSE q + 1

labels_of(sel) == [i \in 1..Len(sel) |-> sel[i][2]]

\* The low band without its upper end.
low_areas_below_two(scores) ==
    labels_of(SelectSeq(QUESTIONS, LAMBDA q : scores[q[1]].score < 2))

low_areas(scores) ==
    labels_of(SelectSeq(QUESTIONS, LAMBDA q : scores[q[1]].score <= 2))

\* The high band taken in reverse catalog order.
high_areas_reversed(scores) ==
    LET sel == SelectSeq(QUESTIONS, LAMBDA q : scores[q[1]].score >= 4)
    IN  [i \in 1..Len(sel) |-> sel[Len(sel) + 1 - i][2]]

high_areas(scores) ==
    labels_of(SelectSeq(QUESTIONS, LAMBDA q : scores[q[1]].score >= 4))

Contains(seq, x) == \E i \in 1..Len(seq) : seq[i] = x

\* Recommendations whose financial rule looks at the sales label.
recommendations_finance_on_sales(low) ==
    (IF Contains(low, "Sales & lead generation")
     THEN << <<"- Implement a lead pipeline with clear weekly targets and tracking.">> >>
     ELSE <<>>)
    \o (IF Contains(low, "Sales & lead generation")
        THEN << <<"- Set up monthly P&L tracking and review unit economics.">> >>
        ELSE <<>>)
    \o (IF Contains(low, "Brand & online presence")
        THEN << <<"- Refresh website messaging and create a content calendar.">> >>
        ELSE <<>>)
    \o (IF low = <<>>
        THEN << <<"- You're in great shape. Consider accelerating growth initiatives.">> >>
        ELSE <<>>)

\* Recommendations without the line for a summary with no focus area.
recommendations_without_generic(low) ==
    (IF Contains(low, "Sales & lead generation")
     THEN << <<"- Implement a lead pipeline with clear weekly targets and tracking.">> >>
     ELSE <<>>)
    \o (IF Contains(low, "Financial tracking & pricing")
        THEN << <<"- Set up monthly P&L tracking and review unit economics.">> >>
        ELSE <<>>)
    \o (IF Contains(low, "Brand & online presence")
        THEN << <<"- Refresh website messaging and create a content calendar.">> >>
        ELSE <<>>)

\* The lines interpret appends after "Recommended next steps:".
recommendations(low) ==
    (IF Contains(low, "Sales & lead generation")
     THEN << <<"- Implement a lead pipeline with clear weekly targets and tracking.">> >>
     ELSE <<>>)
    \o (IF Contains(low, "Financial tracking & pricing")
        THEN << <<"- Set up monthly P&L tracking and review unit economics.">> >>
        ELSE <<>>)
    \o (IF Contains(low, "Brand & online presence")
        THEN << <<"- Refresh website messaging and create a content calendar.">> >>
        ELSE <<>>)
    \o (IF low = <<>>
        THEN << <<"- You're in great shape. Consider accelerating growth initiatives.">> >>
        ELSE <<>>)

\* The summary as the sequence of the sentences that " ".join(lines) joins.
interpret(scores) ==
    LET low == low_areas(scores)
        high == high_areas(scores)
    IN  << <<"Your overall readiness score is",
             format_1f(SumScores(scores, DOMAIN scores),
                       Cardinality(DOMAIN scores)), "/5.">> >>
        \o (IF high # <<>> THEN << <<"Strengths:", high>> >> ELSE <<>>)
        \o (IF low # <<>> THEN << <<"Focus areas:", low>> >> ELSE <<>>)
        \o << <<"Recommended next steps:">> >>
        \o recommendations(low)

-----------------------------------------------------------------------------
(* make_report_pdf: the content drawn into the PDF, which determines its   *)
(* bytes.  The date line prints datetime.utcnow() to the minute.           *)

strftime_minute(now) == now \div SecondsPerMinute

make_report_pdf(user_name, email, scores, insights, now) ==
    [name |-> user_name,
     email |-> email,
     date |-> strftime_minute(now),
     score_lines |-> [i \in 1..Len(QUESTIONS) |->
                        <<QUESTIONS[i][2], scores[QUESTIONS[i][1]].score>>],
     insights |-> insights,
     polygon |-> [i \in 1..Len(QUESTIONS) |-> scores[QUESTIONS[i][1]].score]]

-----------------------------------------------------------------------------
(* The word-wrap of make_report_pdf.  insights.split() gives the words of   *)
(* the text, none of them empty.  A word is written as its length, a line   *)
(* as the sequence of the words joined by single spaces: "" is <<>>.        *)

\* The bound of the test len(line) + len(word) + 1 < 90.
WrapLimit == 90

RECURSIVE SumLen(_)
SumLen(ws) == IF ws = <<>> THEN 0 ELSE Head(ws) + SumLen(Tail(ws))

\* len(line): the words and one space between two neighbours.
len(line) == IF line = <<>> THEN 0 ELSE SumLen(line) + Len(line) - 1

\* No wrap is in progress.
WrapIdle ==
    [words |-> <<>>, next |-> 1, line |-> <<>>, wrap |-> <<>>, pc |-> "done"]

\* wrap = []; line = ""; and the loop is about to take the first word.
wrap_start(words) ==
    [words |-> words, next |-> 1, line |-> <<>>, wrap |-> <<>>, pc |-> "loop"]

\* One iteration of "for word in insights.split()".
wrap_word ==
    /\ wrap_state.pc = "loop"
    /\ wrap_state.next <= Len(wrap_state.words)
    /\ LET word == wrap_state.words[wrap_state.next]
           line == wrap_state.line
       IN  wrap_state' =
             IF len(line) + word + 1 < WrapLimit
             THEN [wrap_state EXCEPT !.line = Append(line, word),
                                     !.next = @ + 1]
             ELSE [wrap_state EXCEPT !.wrap = Append(@, line),
                                     !.line = <<word>>,
                                     !.next = @ + 1]
    /\ UNCHANGED <<session_state, query_params, screen, auth_form, pc,
                   pending, leads_db, clock, calls, emailed_ok, failures,
                   resets>>

\* After the loop: if line: wrap.append(line).
wrap_end ==
    /\ wrap_state.pc = "loop"
    /\ wrap_state.next > Len(wrap_state.words)
    /\ wrap_state' =
         [wrap_state EXCEPT
            !.wrap = IF wrap_state.line # <<>>
                     THEN Append(@, wrap_state.line) ELSE @,
            !.pc = "done"]
    /\ UNCHANGED <<session_state, query_params, screen, auth_form, pc,
                   pending, leads_db, clock, calls, emailed_ok, failures,
                   resets>>

-----------------------------------------------------------------------------
(* Specification *)

\* No script run is in progress, the lead store does not exist yet.
InitShared ==
    /\ auth_form = [s \in Sessions |-> EmptyForm]
    /\ pc = [s \in Sessions |-> "idle"]
    /\ pending = [s \in Sessions |-> None]
    /\ leads_db = <<>>
    /\ clock = StartClock
    /\ calls = [s \in Sessions |-> <<>>]
    /\ emailed_ok = [s \in Sessions |-> FALSE]
    /\ failures = 0
    /\ resets = 0
    /\ wrap_state = WrapIdle

\* The state after the first script run of a session: init_state() has set
\* the defaults and router() has rendered the landing page.  Session s1 is
\* the one that acts; s2 is opened without query parameters and stays idle.
Init ==
    /\ query_params \in {qp \in [Sessions -> QueryParamChoices] :
                           qp["s2"] = EmptyParams}
    /\ session_state = [s \in Sessions |-> init_state({}, <<>>, query_params[s])]
    /\ screen = [s \in Sessions |-> "landing"]
    /\ InitShared

(* The pages, their widgets, and the script run a click triggers *)

\* router: the page of a stage; an unknown stage renders the landing page.
router(stage) ==
    IF stage \in {"pay", "auth", "survey", "report", "done"} THEN stage
    ELSE "landing"

\* Pages that all carry a Start Over button.
WidgetsOn_start_over_everywhere(page) ==
    {"Start Over"} \cup
    (CASE page = "landing" -> {"Start Diagnostic"}
       [] page = "pay"     -> {"Simulate Payment (Demo)", "Proceed with Stripe (Test)"}
       [] page = "auth"    -> {"Continue"}
       [] page = "survey"  -> {"Generate Report"}
       [] page = "report"  -> {"Download PDF", "Email me the report", "Finish"}
       [] page = "done"    -> {})

\* The widgets of a page that re-run the script when used (link buttons do
\* not).  The Stripe button is rendered when STRIPE_PUBLISHABLE_KEY is set.
WidgetsOn(page) ==
    CASE page = "landing" -> {"Start Diagnostic"}
      [] page = "pay"     -> {"Simulate Payment (Demo)", "Proceed with Stripe (Test)"}
      [] page = "auth"    -> {"Continue"}
      [] page = "survey"  -> {"Generate Report"}
      [] page = "report"  -> {"Download PDF", "Email me the report", "Finish"}
      [] page = "done"    -> {"Start Over"}

\* A script run of session s that router sends to `page`, triggered by a
\* click on widget w of the page the browser shows.
Run(s, page, w) ==
    /\ pc[s] = "idle"
    /\ router(session_state[s].stage) = page
    /\ w \in WidgetsOn(screen[s])

Rendered(s, page) == screen' = [screen EXCEPT ![s] = page]

\* The handler enters upsert_lead(row); it will set stage to `next` after it.
call_upsert_lead(s, row, next) ==
    /\ pc' = [pc EXCEPT ![s] = "upsert"]
    /\ pending' = [pending EXCEPT ![s] =
                     Some([frame |-> upsert_lead_frame(leads_db, row),
                           next |-> next])]
    /\ calls' = [calls EXCEPT ![s] = Append(@, row)]

\* ui_landing with the Start button sending the user past the payment page.
ui_landing_skips_payment(s) ==
    \E w \in WidgetsOn(screen[s]) :
        /\ Run(s, "landing", w)
        /\ session_state' = [session_state EXCEPT ![s].stage =
                               IF w = "Start Diagnostic" THEN "auth" ELSE @]
        /\ Rendered(s, "landing")
        /\ UNCHANGED <<query_params, wrap_state, auth_form, pc, pending, leads_db, clock,
                       calls, emailed_ok, failures, resets>>

ui_landing(s) ==
    \E w \in WidgetsOn(screen[s]) :
        /\ Run(s, "landing", w)
        /\ session_state' = [session_state EXCEPT ![s].stage =
                               IF w = "Start Diagnostic" THEN "pay" ELSE @]
        /\ Rendered(s, "landing")
        /\ UNCHANGED <<query_params, wrap_state, auth_form, pc, pending, leads_db, clock,
                       calls, emailed_ok, failures, resets>>

\* A payment button that moves on without setting the flag.
ui_payment_leaves_unpaid(s) ==
    \E w \in WidgetsOn(screen[s]) :
        /\ Run(s, "pay", w)
        /\ session_state' = [session_state EXCEPT ![s] =
                               IF w = "Simulate Payment (Demo)"
                               THEN [@ EXCEPT !.stage = "auth"]
                               ELSE @]
        /\ Rendered(s, "pay")
        /\ UNCHANGED <<query_params, wrap_state, auth_form, pc, pending, leads_db, clock,
                       calls, emailed_ok, failures, resets>>

ui_payment(s) ==
    \E w \in WidgetsOn(screen[s]) :
        /\ Run(s, "pay", w)
        /\ session_state' = [session_state EXCEPT ![s] =
                               IF w = "Simulate Payment (Demo)"
                               THEN [@ EXCEPT !.paid = TRUE, !.stage = "auth"]
                               ELSE @]
        /\ Rendered(s, "pay")
        /\ UNCHANGED <<query_params, wrap_state, auth_form, pc, pending, leads_db, clock,
                       calls, emailed_ok, failures, resets>>

\* The validation of ui_auth without the password.
valid_identity_without_password(form) ==
    form.email # "" /\ form.name # ""

valid_identity(form) ==
    form.email # "" /\ form.name # "" /\ form.password # ""

ui_auth(s) ==
    \E w \in WidgetsOn(screen[s]) :
        /\ Run(s, "auth", w)
        /\ Rendered(s, "auth")
        /\ IF w = "Continue"
           THEN \E email \in EmailChoices, name \in NameChoices,
                   phone \in PhoneChoices, password \in PasswordChoices :
                    LET form == [email |-> email, name |-> name,
                                 phone |-> phone, password |-> password]
                        ss == [session_state[s] EXCEPT
                                 !.user_email = email,
                                 !.user_name = name,
                                 !.user_phone = phone,
                                 !.lead_id = new_lead_id(clock)]
                    IN  /\ auth_form' = [auth_form EXCEPT ![s] = form]
                        /\ IF ~valid_identity(form)
                           THEN UNCHANGED <<session_state, pc, pending, calls>>
                           ELSE /\ session_state' =
                                     [session_state EXCEPT ![s] = ss]
                                /\ call_upsert_lead(s,
                                     identity_row(ss, name, email, phone, clock),
                                     "survey")
           ELSE UNCHANGED <<session_state, auth_form, pc, pending, calls>>
        /\ UNCHANGED <<query_params, wrap_state, leads_db, clock, emailed_ok, failures,
                       resets>>

\* ui_survey without the assignment to st.session_state.answers.
ui_survey_drops_answers(s) ==
    \E w \in WidgetsOn(screen[s]) :
        /\ Run(s, "survey", w)
        /\ Rendered(s, "survey")
        /\ IF w = "Generate Report"
           THEN \E sc \in ScoreChoices, note \in NoteChoices :
                    LET responses == [k \in Keys |->
                                        [score |-> sc[k], note |-> note]]
                    IN  /\ UNCHANGED session_state
                        /\ call_upsert_lead(s,
                              scores_row(session_state[s], responses, clock),
                              "report")
           ELSE UNCHANGED <<session_state, pc, pending, calls>>
        /\ UNCHANGED <<query_params, wrap_state, auth_form, leads_db, clock, emailed_ok,
                       failures, resets>>

ui_survey(s) ==
    \E w \in WidgetsOn(screen[s]) :
        /\ Run(s, "survey", w)
        /\ Rendered(s, "survey")
        /\ IF w = "Generate Report"
           THEN \E sc \in ScoreChoices, note \in NoteChoices :
                    LET responses == [k \in Keys |->
                                        [score |-> sc[k], note |-> note]]
                        ss == [session_state[s] EXCEPT !.answers = responses]
                    IN  /\ session_state' = [session_state EXCEPT ![s] = ss]
                        /\ call_upsert_lead(s, scores_row(ss, responses, clock),
                                            "report")
           ELSE UNCHANGED <<session_state, pc, pending, calls>>
        /\ UNCHANGED <<query_params, wrap_state, auth_form, leads_db, clock, emailed_ok,
                       failures, resets>>

\* scores[key] raises KeyError unless every catalog key has an entry.
complete(scores) == Keys \subseteq DOMAIN scores

ui_report(s) ==
    \E w \in WidgetsOn(screen[s]) :
        /\ Run(s, "report", w)
        /\ Rendered(s, "report")
        /\ LET scores == session_state[s].answers
           IN  IF ~complete(scores)
               THEN UNCHANGED <<session_state, pc, pending, calls, emailed_ok>>
               ELSE
               LET insights == interpret(scores)
                   pdf_bytes == make_report_pdf(session_state[s].user_name,
                                                session_state[s].user_email,
                                                scores, insights, clock)
                   ss == [session_state[s] EXCEPT
                            !.report_pdf_bytes = Some(pdf_bytes)]
               IN  /\ session_state' = [session_state EXCEPT ![s] = ss]
                   /\ \E ok \in BOOLEAN :
                        LET sent == (w = "Email me the report") /\ ok
                        IN  /\ (w # "Email me the report") => ~ok
                            /\ emailed_ok' = [emailed_ok EXCEPT ![s] = @ \/ sent]
                            /\ IF w = "Finish"
                               THEN call_upsert_lead(s,
                                      completion_row(ss, sent, clock), "done")
                               ELSE UNCHANGED <<pc, pending, calls>>
        /\ UNCHANGED <<query_params, wrap_state, auth_form, leads_db, clock, failures,
                       resets>>

\* A Start Over loop that deletes the identity keys only.
start_over_keeps_answers == {"answers", "paid", "report_pdf_bytes"}

\* The keys the Start Over loop leaves in st.session_state: none.
start_over_kept == {}

\* The Start Over button of the done page: every key is deleted and
\* init_state() sets the defaults again.
start_over(s) ==
    /\ Run(s, "done", "Start Over")
    /\ Rendered(s, "done")
    /\ resets < MaxResets
    /\ session_state' = [session_state EXCEPT ![s] =
                           init_state(start_over_kept, @, query_params[s])]
    /\ auth_form' = [auth_form EXCEPT ![s] = EmptyForm]
    /\ calls' = [calls EXCEPT ![s] = <<>>]
    /\ emailed_ok' = [emailed_ok EXCEPT ![s] = FALSE]
    /\ resets' = resets + 1
    /\ UNCHANGED <<query_params, wrap_state, pc, pending, leads_db, clock, failures>>

ui_done(s) ==
    \/ start_over(s)
    \/ \E w \in WidgetsOn(screen[s]) \ {"Start Over"} :
        /\ Run(s, "done", w)
        /\ Rendered(s, "done")
        /\ UNCHANGED <<session_state, query_params, wrap_state, auth_form, pc, pending,
                       leads_db, clock, calls, emailed_ok, failures, resets>>

\* df.to_csv(CSV_DB) replaces the file by the frame built before, and the
\* handler then sets the next stage.
to_csv(s) ==
    /\ pc[s] = "upsert"
    /\ leads_db' = pending[s][1].frame
    /\ session_state' = [session_state EXCEPT ![s].stage = pending[s][1].next]
    /\ pc' = [pc EXCEPT ![s] = "idle"]
    /\ pending' = [pending EXCEPT ![s] = None]
    /\ UNCHANGED <<query_params, wrap_state, screen, auth_form, clock, calls, emailed_ok,
                   failures, resets>>

\* upsert_lead raises (the file cannot be read or written).  No handler has
\* a try block, so the run ends there and the stage assignment is skipped.
upsert_lead_raises(s) ==
    /\ pc[s] = "upsert"
    /\ failures < MaxFailures
    /\ failures' = failures + 1
    /\ pc' = [pc EXCEPT ![s] = "idle"]
    /\ pending' = [pending EXCEPT ![s] = None]
    /\ UNCHANGED <<session_state, query_params, wrap_state, screen, auth_form, leads_db,
                   clock, calls, emailed_ok, resets>>

Tick ==
    /\ clock < StartClock + MaxTicks
    /\ clock' = clock + 1
    /\ UNCHANGED <<session_state, query_params, wrap_state, screen, auth_form, pc, pending,
                   leads_db, calls, emailed_ok, failures, resets>>

\* One step of session s: one script run up to its end or up to the write of
\* upsert_lead, or the completion of that call.
handler(s) ==
    \/ ui_landing(s)
    \/ ui_payment(s)
    \/ ui_auth(s)
    \/ ui_survey(s)
    \/ ui_report(s)
    \/ ui_done(s)
    \/ to_csv(s)

\* One user going through the wizard; the lead store may fail.
Next ==
    \/ Tick
    \/ handler("s1")
    \/ upsert_lead_raises("s1")

Spec == Init /\ [][Next]_vars

\* Two users who have both paid and see the sign-up form, each in a session
\* of its own, submit their identity and their answers at the same time;
\* the two script threads share leads_db.csv.
InitConcurrent ==
    /\ query_params \in [Sessions -> QueryParamChoices]
    /\ session_state = [s \in Sessions |->
                          [init_state({}, <<>>, query_params[s]) EXCEPT
                             !.paid = TRUE, !.stage = "auth"]]
    /\ screen = [s \in Sessions |-> "auth"]
    /\ InitShared

NextConcurrent ==
    \/ Tick
    \/ \E s \in Sessions :
        \/ ui_auth(s)
        \/ ui_survey(s)
        \/ to_csv(s)

SpecConcurrent == InitConcurrent /\ [][NextConcurrent]_vars

\* The values of the survey sliders: st.slider(label, 1, 5, 3).
SliderValues == 1..5

\* The answer sets explored: those with at most MaxDistinct different values.
AnswerChoices ==
    {sc \in [Keys -> SliderValues] :
        Cardinality({sc[k] : k \in Keys}) <= MaxDistinct}

\* interpret on the answer sets the survey form can submit: a session that
\* has just submitted its answers, with any slider values, and whose browser
\* still shows the survey page.
InitInterpret ==
    /\ query_params = [s \in Sessions |-> EmptyParams]
    /\ \E sc \in AnswerChoices :
         LET responses == [k \in Keys |-> [score |-> sc[k], note |-> ""]]
             signed_up == [defaults(EmptyParams) EXCEPT
                             !.paid = TRUE,
                             !.user_email = "ann@x.io",
                             !.user_name = "Ann",
                             !.user_phone = "012",
                             !.lead_id = new_lead_id(StartClock)]
             answered == [signed_up EXCEPT
                            !.answers = responses, !.stage = "report"]
             rows == << identity_row(signed_up, "Ann", "ann@x.io", "012",
                                     StartClock),
                        scores_row(answered, responses, StartClock) >>
         IN  /\ session_state = [s \in Sessions |->
                                   IF s = "s1" THEN answered
                                   ELSE defaults(EmptyParams)]
             /\ leads_db = rows
             /\ calls = [s \in Sessions |-> IF s = "s1" THEN rows ELSE <<>>]
    /\ screen = [s \in Sessions |-> IF s = "s1" THEN "survey" ELSE "landing"]
    /\ auth_form = [s \in Sessions |->
                      IF s = "s1"
                      THEN [email |-> "ann@x.io", name |-> "Ann",
                            phone |-> "012", password |-> "pw"]
                      ELSE EmptyForm]
    /\ pc = [s \in Sessions |-> "idle"]
    /\ pending = [s \in Sessions |-> None]
    /\ clock = StartClock
    /\ emailed_ok = [s \in Sessions |-> FALSE]
    /\ failures = 0
    /\ resets = 0
    /\ wrap_state = WrapIdle

\* The runs of the report page that only render it: the first run after the
\* survey, Download PDF, an email that is not sent.
render_report(s) ==
    /\ ui_report(s)
    /\ UNCHANGED <<pc, emailed_ok>>

NextInterpret == render_report("s1")

SpecInterpret == InitInterpret /\ [][NextInterpret]_vars

\* The word lengths explored, around the bound of the test.
WordLengths == {1, 44, 45, 88, 89, 90}

RECURSIVE Texts(_)
Texts(n) ==
    IF n = 0 THEN {<<>>}
    ELSE Texts(n - 1)
         \cup {Append(t, w) : t \in {u \in Texts(n - 1) : Len(u) = n - 1},
                              w \in WordLengths}

\* make_report_pdf reaches its word-wrap with a text of at most MaxWords
\* words; no session is running.
InitWrap ==
    /\ query_params = [s \in Sessions |-> EmptyParams]
    /\ session_state = [s \in Sessions |-> defaults(EmptyParams)]
    /\ screen = [s \in Sessions |-> "landing"]
    /\ auth_form = [s \in Sessions |-> EmptyForm]
    /\ pc = [s \in Sessions |-> "idle"]
    /\ pending = [s \in Sessions |-> None]
    /\ leads_db = <<>>
    /\ clock = StartClock
    /\ calls = [s \in Sessions |-> <<>>]
    /\ emailed_ok = [s \in Sessions |-> FALSE]
    /\ failures = 0
    /\ resets = 0
    /\ \E words \in Texts(MaxWords) : wrap_state = wrap_start(words)

NextWrap == wrap_word \/ wrap_end

SpecWrap == InitWrap /\ [][NextWrap]_vars

-----------------------------------------------------------------------------
(* Properties *)

stage_of(s) == session_state[s].stage

StageIndex(st) == CHOOSE i \in 1..Len(Stages) : Stages[i] = st

\* C1: every change of a session's stage is a step to the immediate
\* successor in landing, pay, auth, survey, report, done, or a reset to
\* landing; the stage never moves back to a non-landing stage and never skips
\* a stage forward.
C1_StageStepsForwardOrResets ==
    [][\A s \in Sessions :
          \/ session_state'[s].stage = session_state[s].stage
          \/ StageIndex(session_state'[s].stage)
               = StageIndex(session_state[s].stage) + 1
          \/ session_state'[s].stage = "landing"]_vars

\* A session that has been through the six stages, was reset, and is at the
\* last stage again.
C1_Witness ==
    resets = 1 /\ stage_of("s1") = "done"

\* C2: a session leaves auth for survey only with the email, the name and
\* the password of the submission that started the step all non-empty; a
\* submission with one of the three empty starts no lead-store call and
\* leaves the stage at auth.
C2_SurveyOnlyWithFullIdentity ==
    [][\A s \in Sessions :
          LET full == /\ auth_form'[s].email # ""
                      /\ auth_form'[s].name # ""
                      /\ auth_form'[s].password # ""
          IN  /\ (session_state[s].stage = "auth"
                    /\ session_state'[s].stage = "survey") => full
              /\ (session_state[s].stage = "auth" /\ ~full)
                    => (session_state'[s].stage = "auth" /\ pc'[s] = "idle")
       ]_vars

\* A submission with email and name but no password was made, and the
\* session is still at auth.
C2_Witness ==
    /\ stage_of("s1") = "auth"
    /\ auth_form["s1"].email # ""
    /\ auth_form["s1"].name # ""
    /\ auth_form["s1"].password = ""

\* C3: once report_pdf_bytes holds the report of the current answers, every
\* later run leaves it byte-identical as long as the answers do not change,
\* whatever the clock does in between.
C3_ReportBytesStable ==
    [][\A s \in Sessions :
          (/\ session_state[s].report_pdf_bytes # None
           /\ session_state'[s].answers = session_state[s].answers)
          => session_state'[s].report_pdf_bytes
               = session_state[s].report_pdf_bytes]_vars

\* The number of times x occurs in seq.
Count(seq, x) == Cardinality({i \in 1..Len(seq) : seq[i] = x})

\* C4: when two sessions call upsert_lead concurrently, once both calls
\* have completed the store holds the row of every call made, each as often
\* as it was passed; no row is lost or overwritten.
C4_NoLostRow ==
    (\A s \in Sessions : pc[s] = "idle")
    => \A t \in Sessions : \A i \in 1..Len(calls[t]) :
          Count(leads_db, calls[t][i])
            = Count(calls["s1"], calls[t][i]) + Count(calls["s2"], calls[t][i])

\* C5: a lead-store call that ends, with or without a failure, leaves the
\* wizard on its way: the stage has advanced to the stage that follows the
\* handler's (survey after auth, report after survey, done after report).
C5_FailureDoesNotInterrupt ==
    [][\A s \in Sessions :
          (pc[s] = "upsert" /\ pc'[s] = "idle")
          => StageIndex(session_state'[s].stage)
               = StageIndex(session_state[s].stage) + 1]_vars

\* The columns a row fills.
filled(row) == {c \in Columns : row[c] # None}

IdentityColumns ==
    {"lead_id", "name", "email", "phone", "paid", "created_utc"}
    \cup ReferralKeys

ScoresColumns == {"lead_id", "updated_utc"} \cup {ScoreColumn[k] : k \in Keys}

CompletionColumns == {"lead_id", "report_ready", "emailed", "completed_utc"}

\* C6: a session that has gone from landing to done has made exactly three
\* upsert_lead calls: the identity row, then the scores-only row, then one
\* completion row.
C6_ThreeCallsPerSession ==
    \A s \in Sessions :
        stage_of(s) = "done"
        => /\ Len(calls[s]) = 3
           /\ filled(calls[s][1]) = IdentityColumns
           /\ filled(calls[s][2]) = ScoresColumns
           /\ filled(calls[s][3]) = CompletionColumns

\* The page router renders for the session's stage has a Start Over button.
StartOverOffered(s) == "Start Over" \in WidgetsOn(router(stage_of(s)))

\* C7 as stated: the start-over action is available in every stage.
C7_StartOverInEveryStage ==
    \A s \in Sessions : StartOverOffered(s)

\* C7 as amended: the start-over action is available in the done stage and
\* in no other stage, and it takes the session from done to landing.
C7_StartOverOnlyInDone ==
    /\ [](\A s \in Sessions : StartOverOffered(s) <=> stage_of(s) = "done")
    /\ [][\A s \in Sessions :
            start_over(s) => /\ session_state[s].stage = "done"
                             /\ session_state'[s].stage = "landing"]_vars

\* Start Over has just been used: the session is at landing again and the
\* browser still shows the done page.
C7_Witness ==
    resets = 1 /\ stage_of("s1") = "landing" /\ screen["s1"] = "done"

\* C8: after a start-over the whole session record equals the initial
\* defaults, with the referral read again from the request's query
\* parameters; nothing entered before survives.
C8_StartOverRestoresDefaults ==
    [][\A s \in Sessions :
          start_over(s)
          => session_state'[s] =
               [stage |-> "landing",
                user_email |-> "",
                user_name |-> "",
                user_phone |-> "",
                referral |-> [k \in ReferralKeys |->
                                IF k \in DOMAIN query_params[s]
                                THEN query_params[s][k] ELSE ""],
                answers |-> <<>>,
                paid |-> FALSE,
                report_pdf_bytes |-> None,
                lead_id |-> None]]_vars

\* Start Over has just been used by a session that came with a referral and
\* has rows of its earlier run in the lead store.
C8_Witness ==
    /\ resets = 1
    /\ screen["s1"] = "done"
    /\ session_state["s1"].user_email = ""
    /\ session_state["s1"].answers = <<>>
    /\ session_state["s1"].referral.ref = "partner"
    /\ Len(leads_db) = 3

\* C9: answers is empty or has exactly one entry per catalog key with an
\* integer score in 1..5, and it is the complete form whenever the stage is
\* report or done.
C9_AnswersEmptyOrComplete ==
    \A s \in Sessions :
        LET answers == session_state[s].answers
        IN  /\ \/ answers = <<>>
               \/ /\ DOMAIN answers = Keys
                  /\ \A k \in Keys : answers[k].score \in 1..5
            /\ stage_of(s) \in {"report", "done"} => DOMAIN answers = Keys

\* The report page has been rendered from the answers of the scenario.
C9_Witness ==
    /\ stage_of("s1") = "report"
    /\ session_state["s1"].report_pdf_bytes # None
    /\ session_state["s1"].answers["sales"].score = 1

\* C10: the identity and the lead_id do not change from the moment the
\* session leaves auth until the next reset, and lead_id is assigned once per
\* session: once it is set, only a reset changes it.
C10_IdentityAssignedOnce ==
    [][\A s \in Sessions :
          /\ (stage_of(s) \in {"survey", "report", "done"}
                /\ session_state'[s].stage # "landing")
             => /\ session_state'[s].user_email = session_state[s].user_email
                /\ session_state'[s].user_name = session_state[s].user_name
                /\ session_state'[s].user_phone = session_state[s].user_phone
                /\ session_state'[s].lead_id = session_state[s].lead_id
          /\ (session_state[s].lead_id # None
                /\ session_state'[s].stage # "landing")
             => session_state'[s].lead_id = session_state[s].lead_id]_vars

-----------------------------------------------------------------------------
(* The summary of interpret, read from the report the report page built *)

ReportShown == session_state["s1"].report_pdf_bytes # None

Summary == session_state["s1"].report_pdf_bytes[1].insights

ScoreOf(k) == session_state["s1"].answers[k].score

\* The positions of the summary whose sentence starts with head.
Lines(head) == {i \in 1..Len(Summary) : Summary[i][1] = head}

CatalogIndex(label) ==
    CHOOSE i \in 1..Len(QUESTIONS) : QUESTIONS[i][2] = label

LabelsScored(values) ==
    {QUESTIONS[i][2] : i \in {j \in 1..Len(QUESTIONS) :
                                 ScoreOf(QUESTIONS[j][1]) \in values}}

\* The clause starting with head is there exactly when labels is not empty,
\* at most once, and lists each of labels once, in catalog order.
ClauseLists(head, labels) ==
    /\ (Lines(head) = {}) <=> (labels = {})
    /\ Cardinality(Lines(head)) <= 1
    /\ \A i \in Lines(head) :
         LET listed == Summary[i][2]
         IN  /\ {listed[j] : j \in 1..Len(listed)} = labels
             /\ Len(listed) = Cardinality(labels)
             /\ \A j \in 1..Len(listed) : \A k \in 1..Len(listed) :
                  j < k => CatalogIndex(listed[j]) < CatalogIndex(listed[k])

\* label is one of the labels the clause starting with head lists.
Listed(head, label) ==
    \E i \in Lines(head) :
        \E j \in 1..Len(Summary[i][2]) : Summary[i][2][j] = label

PerLabelSentences ==
    {"- Implement a lead pipeline with clear weekly targets and tracking.",
     "- Set up monthly P&L tracking and review unit economics.",
     "- Refresh website messaging and create a content calendar."}

GenericSentence ==
    "- You're in great shape. Consider accelerating growth initiatives."

\* C11: for every complete score assignment the summary contains the sales
\* pipeline sentence iff the sales score is <= 2, the financial tracking
\* sentence iff the finance score is <= 2, and the website sentence iff the
\* brand score is <= 2.
C11_RecommendationIffLow ==
    ReportShown =>
        /\ (Lines("- Implement a lead pipeline with clear weekly targets and tracking.") # {})
             <=> (ScoreOf("sales") <= 2)
        /\ (Lines("- Set up monthly P&L tracking and review unit economics.") # {})
             <=> (ScoreOf("finance") <= 2)
        /\ (Lines("- Refresh website messaging and create a content calendar.") # {})
             <=> (ScoreOf("brand") <= 2)

C11_Witness ==
    /\ ReportShown
    /\ ScoreOf("sales") <= 2
    /\ ScoreOf("finance") >= 3
    /\ ScoreOf("brand") <= 2
    /\ Lines("- Implement a lead pipeline with clear weekly targets and tracking.") # {}
    /\ Lines("- Set up monthly P&L tracking and review unit economics.") = {}

\* C12: for every complete score assignment the Strengths clause lists
\* exactly the labels scored >= 4 and the Focus areas clause exactly the
\* labels scored <= 2, each in catalog order, and a clause is omitted exactly
\* when its set is empty.
C12_ClausesListTheBands ==
    ReportShown =>
        /\ ClauseLists("Strengths:", LabelsScored({4, 5}))
        /\ ClauseLists("Focus areas:", LabelsScored({1, 2}))

C12_Witness ==
    /\ ReportShown
    /\ Cardinality(LabelsScored({4, 5})) >= 2
    /\ Cardinality(LabelsScored({1, 2})) >= 2
    /\ Lines("Strengths:") # {}
    /\ Lines("Focus areas:") # {}

\* C13 as stated: a question scored exactly 2 is not in the low set and a
\* question scored exactly 4 is not in the high set.
C13_TwoAndFourNeutral ==
    ReportShown =>
        \A i \in 1..Len(QUESTIONS) :
            /\ ScoreOf(QUESTIONS[i][1]) = 2
                 => ~Listed("Focus areas:", QUESTIONS[i][2])
            /\ ScoreOf(QUESTIONS[i][1]) = 4
                 => ~Listed("Strengths:", QUESTIONS[i][2])

\* C13: a question scored exactly 2 is in the low set and a question scored
\* exactly 4 is in the high set; only a score of 3 is in neither set.
C13_OnlyThreeNeutral ==
    ReportShown =>
        \A i \in 1..Len(QUESTIONS) :
            /\ ScoreOf(QUESTIONS[i][1]) = 2
                 => /\ Listed("Focus areas:", QUESTIONS[i][2])
                    /\ ~Listed("Strengths:", QUESTIONS[i][2])
            /\ ScoreOf(QUESTIONS[i][1]) = 4
                 => /\ Listed("Strengths:", QUESTIONS[i][2])
                    /\ ~Listed("Focus areas:", QUESTIONS[i][2])
            /\ ScoreOf(QUESTIONS[i][1]) = 3
                 => /\ ~Listed("Strengths:", QUESTIONS[i][2])
                    /\ ~Listed("Focus areas:", QUESTIONS[i][2])

C13_Witness ==
    /\ ReportShown
    /\ \E k \in Keys : ScoreOf(k) = 2
    /\ \E k \in Keys : ScoreOf(k) = 4
    /\ \E k \in Keys : ScoreOf(k) = 3
    /\ \A k \in Keys : ScoreOf(k) \in {2, 3, 4}

\* C14: when no score is <= 2 and none is >= 4 (all scores are 3) the summary
\* has no Strengths clause, no Focus areas clause and no per-label
\* recommendation, and its last sentence is the generic recommendation.
C14_AllThreeGenericOnly ==
    (ReportShown /\ \A k \in Keys : ~(ScoreOf(k) <= 2) /\ ~(ScoreOf(k) >= 4)) =>
        /\ Lines("Strengths:") = {}
        /\ Lines("Focus areas:") = {}
        /\ \A r \in PerLabelSentences : Lines(r) = {}
        /\ Summary[Len(Summary)][1] = GenericSentence

C14_Witness ==
    /\ ReportShown
    /\ \A k \in Keys : ScoreOf(k) = 3
    /\ Len(Summary) = 3

\* The sum of the eight scores, key by key.
ScoreSum ==
    ScoreOf("vision") + ScoreOf("market") + ScoreOf("product")
    + ScoreOf("sales") + ScoreOf("ops") + ScoreOf("finance")
    + ScoreOf("team") + ScoreOf("brand")

\* The number of the first sentence, in tenths.
ShownTenths == Summary[1][2]

\* C15: for every score assignment the number shown is the mean (sum / 8)
\* rounded to one decimal: no one-decimal number is nearer to the mean, the
\* halfway sums 10, 14, ..., 38 included.
C15_MeanRoundedToOneDecimal ==
    ReportShown =>
        /\ 8 * ShownTenths - 10 * ScoreSum <= 4
        /\ 10 * ScoreSum - 8 * ShownTenths <= 4

C15_Witness ==
    /\ ReportShown
    /\ ScoreSum = 10
    /\ ShownTenths = 12

\* C19: for every complete score assignment at least one recommendation
\* follows "Recommended next steps:": the generic sentence or one of the
\* three per-label sentences.
C19_SomeRecommendation ==
    ReportShown =>
        \E h \in Lines("Recommended next steps:") :
            \E i \in (h + 1)..Len(Summary) :
                Summary[i][1] \in PerLabelSentences \cup {GenericSentence}

\* C16: the emailed cell of the completion row is true iff an email action
\* earlier in the same session's report stage returned success.
C16_EmailedFlagRecordsEmail ==
    \A s \in Sessions :
        \A i \in 1..Len(calls[s]) :
            calls[s][i].report_ready # None
            => calls[s][i].emailed = Some(emailed_ok[s])

\* C18: in every reachable session state, a stage of auth, survey, report or
\* done implies that paid is true.
C18_PastPayMeansPaid ==
    \A s \in Sessions :
        stage_of(s) \in {"auth", "survey", "report", "done"}
        => session_state[s].paid = TRUE

C18_Witness ==
    /\ stage_of("s1") = "done"
    /\ session_state["s1"].paid = TRUE
    /\ resets = MaxResets

\* C20: any two distinct sessions are assigned distinct lead_id values, so
\* rows of different sessions in the lead store never share a lead_id.
C20_DistinctLeadIds ==
    \A s \in Sessions : \A t \in Sessions \ {s} :
        /\ session_state[s].lead_id # None
             => session_state[s].lead_id # session_state[t].lead_id
        /\ \A i \in 1..Len(calls[s]) : \A j \in 1..Len(calls[t]) :
             calls[s][i].lead_id # calls[t][j].lead_id

\* The words of the lines of wrap, in order.
RECURSIVE WordsOf(_)
WordsOf(lines) ==
    IF lines = <<>> THEN <<>> ELSE Head(lines) \o WordsOf(Tail(lines))

\* C17: for every text, words longer than 89 characters and a long first
\* word included, the lines the word-wrap emits are at most 89 characters
\* long and non-empty, and hold the words of the text in their order, each
\* word once and whole.
C17_WrapLinesBoundedNonEmpty ==
    wrap_state.pc = "done" =>
        /\ \A i \in 1..Len(wrap_state.wrap) :
             /\ len(wrap_state.wrap[i]) <= 89
             /\ wrap_state.wrap[i] # <<>>
        /\ WordsOf(wrap_state.wrap) = wrap_state.words

=============================================================================
